---- MODULE Spec2Model ----
(***************************************************************************)
(* State-machine model of ArtifexAI's AIModelManager                       *)
(* (src/ArtifexAI/src/backend/ai_model_manager.py): the provider registry, *)
(* the five capability entry points with their if/elif adapter dispatch,   *)
(* the adapters (one submission, and for Runway and Midjourney a polling   *)
(* loop), estimate_cost and batch_process; and of the three               *)
(* /api/generate endpoints of src/ArtifexAI/src/backend/app.py, which call *)
(* the entry points.                                                       *)
(*                                                                         *)
(* One step of the model is one run of a coroutine between two suspension  *)
(* points of the asyncio event loop: everything the code does between two  *)
(* awaits that really wait (an HTTP reply, asyncio.sleep) is one action.   *)
(*                                                                         *)
(* Money is counted in thousandths of the currency unit (0.05 is 50), so   *)
(* that sums are exact.  An Optional[int] is a sequence of length 0 or 1.  *)
(***************************************************************************)
EXTENDS Integers, Sequences, FiniteSets, TLC

(* Bounds of the model. *)
MaxTasks == 3
MaxPolls == 4
MaxSteps == 3

(***************************************************************************)
(* AIProvider members (by member name) and the other values a caller can   *)
(* pass as provider.                                                       *)
(***************************************************************************)
None == "None"

(* The members load_api_configs gives a registry entry. *)
Configured ==
    {"RUNWAY_GEN3", "PIKA_LABS", "LUMA_DREAM", "KLING", "MIDJOURNEY", "DALL_E_3",
     "FLUX_PRO", "LEONARDO_AI", "SUNO_AI", "UDIO", "ELEVENLABS", "CLAUDE_3_OPUS",
     "GPT_4_TURBO", "WONDER_DYNAMICS", "HEYGEN", "TOPAZ_VIDEO_AI"}

(* Members of the enum that load_api_configs leaves out, and None. *)
Unconfigured == {"STABILITY_VIDEO", "MUSICGEN", "PLAY_HT", "MOONVALLEY", None}

Providers == Configured \cup Unconfigured

Capabilities == {"video", "image", "music", "voice", "script"}

(* APIConfig.cost_per_request of each registry entry, in thousandths. *)
cost_per_request(p) ==
    CASE p = "RUNWAY_GEN3" -> 50
      [] p = "PIKA_LABS" -> 40
      [] p = "LUMA_DREAM" -> 30
      [] p = "KLING" -> 20
      [] p = "MIDJOURNEY" -> 20
      [] p = "DALL_E_3" -> 40
      [] p = "FLUX_PRO" -> 10
      [] p = "LEONARDO_AI" -> 5
      [] p = "SUNO_AI" -> 80
      [] p = "UDIO" -> 60
      [] p = "ELEVENLABS" -> 10
      [] p = "CLAUDE_3_OPUS" -> 15
      [] p = "GPT_4_TURBO" -> 10
      [] p = "WONDER_DYNAMICS" -> 100
      [] p = "HEYGEN" -> 50
      [] p = "TOPAZ_VIDEO_AI" -> 100

(* APIConfig.max_duration of each registry entry: <<m>>, or << >> for None. *)
max_duration(p) ==
    CASE p = "RUNWAY_GEN3" -> <<10>>
      [] p = "PIKA_LABS" -> <<3>>
      [] p = "LUMA_DREAM" -> <<5>>
      [] p = "KLING" -> <<5>>
      [] p = "SUNO_AI" -> <<240>>
      [] p = "UDIO" -> <<300>>
      [] OTHER -> << >>

(***************************************************************************)
(* The outcome of an entry point's dispatch: an adapter to run, or an      *)
(* exception raised before any adapter runs.                               *)
(***************************************************************************)
Invoke(adapter) == [kind |-> "adapter", name |-> adapter]
Raise(error) == [kind |-> "raise", name |-> error]

(* raise ValueError(f"Provider {provider} not configured") *)
UnknownProvider == "ValueError: Provider not configured"
(* raise NotImplementedError(f"Provider {provider} not implemented") *)
UnsupportedProvider == "NotImplementedError: Provider not implemented"
(* self._luma_video and the like: the class defines no such method. *)
MissingAdapter == "AttributeError: AIModelManager has no such adapter method"
(* raise ValueError(f"Unknown task type: {task_type}") *)
UnknownTaskType == "ValueError: Unknown task type"

(* The AIProvider member whose value is the identifier string s, None if  *)
(* there is none.                                                          *)
ByValue(s) ==
    CASE s = "runway_gen3" -> "RUNWAY_GEN3"
      [] s = "pika_labs" -> "PIKA_LABS"
      [] s = "midjourney" -> "MIDJOURNEY"
      [] s = "suno" -> "SUNO_AI"
      [] s = "elevenlabs" -> "ELEVENLABS"
      [] s = "claude3_opus" -> "CLAUDE_3_OPUS"
      [] OTHER -> None

(* Mutant of config_missing: only a missing argument counts as unknown. *)
config_missing_only_none(provider) == provider = None

(* config = self.configs.get(provider); if not config: raise ValueError *)
config_missing(provider) == provider \notin Configured

generate_video(provider) ==
    IF config_missing(provider) THEN Raise(UnknownProvider)
    ELSE IF provider = "RUNWAY_GEN3" THEN Invoke("_runway_gen3_video")
    ELSE IF provider = "PIKA_LABS" THEN Invoke("_pika_video")
    ELSE IF provider \in {"LUMA_DREAM", "KLING", "STABILITY_VIDEO"} THEN Raise(MissingAdapter)
    ELSE Raise(UnsupportedProvider)

generate_image(provider) ==
    IF config_missing(provider) THEN Raise(UnknownProvider)
    ELSE IF provider = "MIDJOURNEY" THEN Invoke("_midjourney_image")
    ELSE IF provider \in {"DALL_E_3", "FLUX_PRO", "LEONARDO_AI"} THEN Raise(MissingAdapter)
    ELSE Raise(UnsupportedProvider)

generate_music(provider) ==
    IF config_missing(provider) THEN Raise(UnknownProvider)
    ELSE IF provider = "SUNO_AI" THEN Invoke("_suno_music")
    ELSE IF provider \in {"UDIO", "MUSICGEN"} THEN Raise(MissingAdapter)
    ELSE Raise(UnsupportedProvider)

generate_voice(provider) ==
    IF config_missing(provider) THEN Raise(UnknownProvider)
    ELSE IF provider = "ELEVENLABS" THEN Invoke("_elevenlabs_voice")
    ELSE IF provider = "PLAY_HT" THEN Raise(MissingAdapter)
    ELSE Raise(UnsupportedProvider)

generate_script(provider) ==
    IF config_missing(provider) THEN Raise(UnknownProvider)
    ELSE IF provider = "CLAUDE_3_OPUS" THEN Invoke("_claude_script")
    ELSE IF provider = "GPT_4_TURBO" THEN Raise(MissingAdapter)
    ELSE Raise(UnsupportedProvider)

(* The entry point of a capability, applied to a provider. *)
Generate(cap, provider) ==
    CASE cap = "video" -> generate_video(provider)
      [] cap = "image" -> generate_image(provider)
      [] cap = "music" -> generate_music(provider)
      [] cap = "voice" -> generate_voice(provider)
      [] cap = "script" -> generate_script(provider)

(* The provider parameter's default value in each entry point's signature. *)
DefaultProvider(cap) ==
    CASE cap = "video" -> "RUNWAY_GEN3"
      [] cap = "image" -> "MIDJOURNEY"
      [] cap = "music" -> "SUNO_AI"
      [] cap = "voice" -> "ELEVENLABS"
      [] cap = "script" -> "CLAUDE_3_OPUS"

(* The duration parameter's default value (0: the entry point has none). *)
DefaultDuration(cap) ==
    CASE cap = "video" -> 5
      [] cap = "music" -> 60
      [] OTHER -> 0

(***************************************************************************)
(* The optional arguments of a call and what the entry point hands to the  *)
(* adapter.  A call's arguments are a function from parameter names to the *)
(* values the caller gave.                                                 *)
(***************************************************************************)
NoArgs == [n \in {} |-> ""]

(* The optional parameters an entry point names in its signature, after    *)
(* the prompt and the provider; a call's other keyword arguments are its   *)
(* **kwargs.                                                               *)
Named(cap) ==
    CASE cap = "video" -> {"image", "duration", "resolution"}
      [] cap = "image" -> {"negative_prompt", "style"}
      [] cap = "music" -> {"duration", "genre"}
      [] cap = "voice" -> {"voice_id"}
      [] cap = "script" -> {"max_tokens"}

(* The call expression that invokes an adapter: the named parameters in    *)
(* its argument list, and whether **kwargs is in it.                       *)
HandsOn(adapter) ==
    CASE adapter = "_runway_gen3_video" ->
             [named |-> {"image", "duration", "resolution"}, kwargs |-> FALSE]
      [] adapter = "_pika_video" ->
             [named |-> {"image", "duration", "resolution"}, kwargs |-> FALSE]
      [] adapter = "_midjourney_image" -> [named |-> {"style"}, kwargs |-> TRUE]
      [] adapter = "_suno_music" -> [named |-> {"duration", "genre"}, kwargs |-> TRUE]
      [] adapter = "_elevenlabs_voice" -> [named |-> {"voice_id"}, kwargs |-> TRUE]
      [] adapter = "_claude_script" -> [named |-> {"max_tokens"}, kwargs |-> TRUE]

(* The adapter's arguments, of those the caller gave. *)
adapter_args(cap, adapter, args) ==
    LET h == HandsOn(adapter)
        keep == {n \in DOMAIN args : IF n \in Named(cap) THEN n \in h.named ELSE h.kwargs}
    IN  [n \in keep |-> args[n]]

(* An entry point called with optional arguments, up to the adapter's      *)
(* first line: the adapter invoked ("" if the dispatch raised) and its     *)
(* arguments.                                                              *)
NotInvoked == [done |-> FALSE, adapter |-> "", args |-> NoArgs]

call_adapter(cap, provider, args) ==
    LET route == Generate(cap, provider)
    IN  IF route.kind = "raise" THEN [done |-> TRUE, adapter |-> "", args |-> NoArgs]
        ELSE [done |-> TRUE, adapter |-> route.name,
              args |-> adapter_args(cap, route.name, args)]

(***************************************************************************)
(* The adapters.                                                           *)
(***************************************************************************)
Adapters ==
    {"_runway_gen3_video", "_pika_video", "_midjourney_image", "_suno_music",
     "_elevenlabs_voice", "_claude_script"}

(* The adapters with a `while True` status loop after the submission. *)
PollingAdapters == {"_runway_gen3_video", "_midjourney_image"}

(* The adapters whose request body holds min(duration, config.max_duration). *)
DurationAdapters == {"_runway_gen3_video", "_pika_video", "_suno_music"}

(* The "provider" string of the adapter's result. *)
DisplayName(adapter) ==
    CASE adapter = "_runway_gen3_video" -> "Runway Gen-3"
      [] adapter = "_pika_video" -> "Pika Labs"
      [] adapter = "_midjourney_image" -> "Midjourney"
      [] adapter = "_suno_music" -> "Suno AI"
      [] adapter = "_elevenlabs_voice" -> "ElevenLabs"
      [] adapter = "_claude_script" -> "Claude 3 Opus"

(* Python's min(duration, config.max_duration); min(d, None) is a TypeError, *)
(* written << >>.                                                           *)
clamp(duration, maxd) ==
    IF maxd = << >> THEN << >>
    ELSE IF maxd[1] < duration THEN <<maxd[1]>> ELSE <<duration>>

(* The statuses the polling loop of an adapter ends on. Runway tests       *)
(* "completed" and "failed"; Midjourney tests "completed" alone.           *)
StopsOn(adapter) ==
    IF adapter = "_runway_gen3_video" THEN {"completed", "failed"} ELSE {"completed"}

(* The status values a vendor may report. *)
Statuses == {"queued", "processing", "completed", "failed"}
Terminal == {"completed", "failed"}

(* How an HTTP exchange ends: a success answer with the documented body; a *)
(* non-success answer whose JSON body is the vendor's error payload; no    *)
(* answer (the connection failed, the session was closed under the         *)
(* request, or aiohttp's total timeout passed), which raises in the        *)
(* adapter.                                                                *)
Replies == {"ok", "http_error", "conn_error"}

(* Whether the adapter's reading of the submission answer survives a body  *)
(* that lacks the documented keys: Runway reads result.get("id"),          *)
(* ElevenLabs reads the raw bytes; the others index the body.              *)
ToleratesErrorBody(adapter) == adapter \in {"_runway_gen3_video", "_elevenlabs_voice"}

(***************************************************************************)
(* State.                                                                  *)
(*   session   self.session: "absent" (None), "open" or "closed"           *)
(*   created   how many aiohttp.ClientSession objects were constructed     *)
(*   mode      the operation in progress on the manager: "idle", a direct  *)
(*             call of an entry point ("single"), batch_process with       *)
(*             parallel=False ("seq") or parallel=True ("par"), a request  *)
(*             to one of app.py's /api/generate endpoints ("endpoint")     *)
(*   tasks     the operation's tasks, in input order                       *)
(*   calls     per task, the coroutine that runs it (see NoCall)           *)
(*   outcome   of the operation: "none", "running", "returned", "raised",  *)
(*             and for an endpoint "rejected" (answered 400 with no call)  *)
(*   error     the exception the operation raised                          *)
(*   results   the list the operation returned                             *)
(*   doneOrder the gathered tasks that finished, in the order they did     *)
(*   workflow  the argument of an estimate_cost call                       *)
(*   total     what that call returned: <<t>>, or << >> before it returns  *)
(*   entry     a call of an entry point with its optional arguments        *)
(*   received  the arguments the adapter of that call was invoked with     *)
(***************************************************************************)
VARIABLES session, created, mode, tasks, calls, outcome, error, results, doneOrder,
          workflow, total, entry, received

vars == <<session, created, mode, tasks, calls, outcome, error, results, doneOrder,
          workflow, total, entry, received>>

Slots == 1..MaxTasks

NoResult == [from |-> 0, body |-> "", provider |-> "", cost |-> 0]

(***************************************************************************)
(* A task's coroutine.                                                     *)
(*   pc        "unused", "pending" (created, not yet run), "awaitPost"     *)
(*             (submission sent), "awaitStatus" (status check sent),       *)
(*             "sleeping" (in asyncio.sleep), "returned", "raised"         *)
(*   posts, gets, sleeps   submissions sent, status checks sent, waits;    *)
(*             the polling loop has no bound, so gets, sleeps and          *)
(*             nonterminal count up to MaxPolls: MaxPolls is "MaxPolls or  *)
(*             more"                                                       *)
(*   sent      the duration placed in the request body the adapter built,  *)
(*             << >> if none                                               *)
(*   last      the status the latest answered status check reported        *)
(*   nonterminal   how many answered status checks reported a status other *)
(*             than "completed" and "failed"                               *)
(*   failed    whether an answered status check reported "failed"          *)
(*   ok        whether every answer so far was a success answer            *)
(***************************************************************************)
NoCall ==
    [pc |-> "unused", err |-> "", result |-> NoResult, posts |-> 0, gets |-> 0,
     sleeps |-> 0, sent |-> << >>, last |-> "", nonterminal |-> 0, failed |-> FALSE,
     ok |-> TRUE]

Pending == [NoCall EXCEPT !.pc = "pending"]

Raised(c, e) == [c EXCEPT !.pc = "raised", !.err = e]

Returned(c, adapter, p, k, b) ==
    [c EXCEPT !.pc = "returned",
              !.result = [from |-> k, body |-> b, provider |-> DisplayName(adapter),
                          cost |-> cost_per_request(p)]]

Finished(c) == c.pc \in {"returned", "raised"}
InFlight(c) == c.pc \in {"awaitPost", "awaitStatus", "sleeping"}

(* _pika_video reads kwargs, which is no parameter or global of it. *)
NameErrorKwargs == "NameError: name 'kwargs' is not defined"
(* min(duration, None) *)
TypeErrorMin == "TypeError: '<' not supported between instances of 'NoneType' and 'int'"
(* self.session is None: None has no post or get. *)
NoSession == "AttributeError: 'NoneType' object has no attribute 'post'"
(* aiohttp refuses a request on a closed ClientSession. *)
SessionClosed == "RuntimeError: Session is closed"
(* The body lacks the key the adapter indexes. *)
KeyErrorBody == "KeyError: key missing in the vendor's answer"
ConnectionLost == "ClientConnectionError"
(* raise Exception(f"Generation failed: {status_data.get('error')}") *)
GenerationFailed == "Exception: Generation failed: <the vendor's error>"

(* The request body an adapter builds (data = {...}), evaluated in the      *)
(* order of the dict display: the clamp comes before Pika's kwargs.get.     *)
request_body(adapter, task) ==
    LET d == IF adapter \in DurationAdapters
             THEN clamp(task.duration, max_duration(task.provider)) ELSE << >>
    IN  IF adapter \in DurationAdapters /\ d = << >> THEN Raise(TypeErrorMin)
        ELSE IF adapter = "_pika_video" THEN Raise(NameErrorKwargs)
        ELSE [kind |-> "body", name |-> adapter, duration |-> d]

(* self.session.post(...) / self.session.get(...) on the session as it is. *)
session_error(sess) ==
    IF sess = "absent" THEN NoSession
    ELSE IF sess = "closed" THEN SessionClosed
    ELSE ""

(* An adapter from its first line to its first wait: the body, then the    *)
(* submission through self.session.                                        *)
submit(c, adapter, task, sess) ==
    LET body == request_body(adapter, task)
    IN  IF body.kind = "raise" THEN Raised(c, body.name)
        ELSE IF session_error(sess) # ""
        THEN Raised([c EXCEPT !.sent = body.duration], session_error(sess))
        ELSE [c EXCEPT !.pc = "awaitPost", !.posts = c.posts + 1, !.sent = body.duration]

(* Mutant of dispatch: a task without a provider is given the entry        *)
(* point's default.                                                        *)
dispatch_default_if_absent(task) ==
    IF task.type \notin Capabilities THEN Raise(UnknownTaskType)
    ELSE IF task.provider = None THEN Generate(task.type, DefaultProvider(task.type))
    ELSE Generate(task.type, task.provider)

(* The entry point a task reaches. _process_task tests the type first; a   *)
(* direct call names the entry point.                                      *)
dispatch(task) ==
    IF task.type \notin Capabilities THEN Raise(UnknownTaskType)
    ELSE Generate(task.type, task.provider)

(* A task's coroutine from its start to its first wait. *)
begin(task, sess) ==
    LET route == dispatch(task)
    IN  IF route.kind = "raise" THEN Raised(Pending, route.name)
        ELSE submit(Pending, route.name, task, sess)

(* The adapter running a task that got past the dispatch. *)
AdapterOf(task) == dispatch(task).name

(* One more, as far as the model counts. *)
Count(n) == IF n < MaxPolls THEN n + 1 ELSE MaxPolls

(* The status check of the polling loop: self.session.get(...). *)
status_check(c, sess) ==
    IF session_error(sess) # "" THEN Raised(c, session_error(sess))
    ELSE [c EXCEPT !.pc = "awaitStatus", !.gets = Count(c.gets)]

(* Mutant of on_post_reply: the polling loop waits before its first check. *)
on_post_reply_wait_first(c, adapter, task, r, sess) ==
    LET c1 == [c EXCEPT !.ok = c.ok /\ r = "ok"]
    IN  IF r = "conn_error" THEN Raised(c1, ConnectionLost)
        ELSE IF r = "http_error" /\ ~ToleratesErrorBody(adapter) THEN Raised(c1, KeyErrorBody)
        ELSE IF adapter \in PollingAdapters
        THEN status_check([c1 EXCEPT !.sleeps = Count(c.sleeps)], sess)
        ELSE Returned(c1, adapter, task.provider, 0, r)

(* The adapter's code after the submission's answer r arrived. *)
on_post_reply(c, adapter, task, r, sess) ==
    LET c1 == [c EXCEPT !.ok = c.ok /\ r = "ok"]
    IN  IF r = "conn_error" THEN Raised(c1, ConnectionLost)
        ELSE IF r = "http_error" /\ ~ToleratesErrorBody(adapter) THEN Raised(c1, KeyErrorBody)
        ELSE IF adapter \in PollingAdapters THEN status_check(c1, sess)
        ELSE Returned(c1, adapter, task.provider, 0, r)

(* The polling loop's body after a status check's answer arrived: r is how *)
(* the exchange ended and s the status a success answer reports.           *)
on_status_reply(c, adapter, task, r, s) ==
    LET c1 == [c EXCEPT !.ok = c.ok /\ r = "ok"]
        c2 == [c1 EXCEPT !.last = s,
                         !.nonterminal = IF s \in Terminal THEN c.nonterminal
                                         ELSE Count(c.nonterminal),
                         !.failed = c.failed \/ s = "failed"]
    IN  IF r = "conn_error" THEN Raised(c1, ConnectionLost)
        ELSE IF r = "http_error" THEN Raised(c1, KeyErrorBody)
        ELSE IF s \notin StopsOn(adapter)
        THEN [c2 EXCEPT !.pc = "sleeping", !.sleeps = Count(c.sleeps)]
        ELSE IF s = "completed" THEN Returned(c2, adapter, task.provider, c.gets, r)
        ELSE Raised(c2, GenerationFailed)

(***************************************************************************)
(* batch_process with parallel=False, and a direct call of an entry point  *)
(* (one task): the caller's coroutine is the task's coroutine, so what     *)
(* follows a task's end runs in the same step.  Task i has just reached c: *)
(* an exception leaves the loop at once, a result is appended and the next *)
(* task is started, up to its own first wait.                              *)
(***************************************************************************)
(* Mutant of run_sequential: a failed task is skipped and the loop goes on. *)
RECURSIVE run_sequential_skip_failed(_, _, _, _, _)
run_sequential_skip_failed(cs, ts, i, c, sess) ==
    LET cs1 == [cs EXCEPT ![i] = c]
    IN  IF InFlight(c)
        THEN [calls |-> cs1, outcome |-> "running", error |-> "", results |-> << >>]
        ELSE IF i = Len(ts)
        THEN [calls |-> cs1, outcome |-> "returned", error |-> "",
              results |-> [j \in 1..Len(ts) |-> cs1[j].result]]
        ELSE run_sequential_skip_failed(cs1, ts, i + 1, begin(ts[i + 1], sess), sess)

RECURSIVE run_sequential(_, _, _, _, _)
run_sequential(cs, ts, i, c, sess) ==
    LET cs1 == [cs EXCEPT ![i] = c]
    IN  IF c.pc = "raised"
        THEN [calls |-> cs1, outcome |-> "raised", error |-> c.err, results |-> << >>]
        ELSE IF c.pc # "returned"
        THEN [calls |-> cs1, outcome |-> "running", error |-> "", results |-> << >>]
        ELSE IF i = Len(ts)
        THEN [calls |-> cs1, outcome |-> "returned", error |-> "",
              results |-> [j \in 1..Len(ts) |-> cs1[j].result]]
        ELSE run_sequential(cs1, ts, i + 1, begin(ts[i + 1], sess), sess)

(***************************************************************************)
(* batch_process with parallel=True: what `await asyncio.gather(...)`      *)
(* gives once every task returned or one raised. gather hears of each     *)
(* task's end in the order the tasks ended (done): the first exception     *)
(* it hears of is raised, otherwise the results stand at their task's      *)
(* position.                                                               *)
(***************************************************************************)
FirstFailure(cs, done) ==
    LET bad == {k \in 1..Len(done) : cs[done[k]].pc = "raised"}
    IN  IF bad = {} THEN 0 ELSE done[CHOOSE k \in bad : \A m \in bad : k <= m]

(* Mutant of gather: the results stand in the order the tasks ended. *)
gather_as_completed(cs, ts, done) ==
    IF FirstFailure(cs, done) # 0
    THEN [outcome |-> "raised", error |-> cs[FirstFailure(cs, done)].err,
          results |-> << >>]
    ELSE [outcome |-> "returned", error |-> "",
          results |-> [j \in 1..Len(ts) |-> cs[done[j]].result]]

(* Mutant of gather: of the tasks that raised, the one first in the input   *)
(* gives the error.                                                        *)
gather_first_in_input(cs, ts, done) ==
    IF FirstFailure(cs, done) # 0
    THEN [outcome |-> "raised",
          error |-> cs[CHOOSE i \in 1..Len(ts) :
                          /\ cs[i].pc = "raised"
                          /\ \A j \in 1..(i - 1) : cs[j].pc # "raised"].err,
          results |-> << >>]
    ELSE [outcome |-> "returned", error |-> "",
          results |-> [j \in 1..Len(ts) |-> cs[j].result]]

gather(cs, ts, done) ==
    IF FirstFailure(cs, done) # 0
    THEN [outcome |-> "raised", error |-> cs[FirstFailure(cs, done)].err,
          results |-> << >>]
    ELSE [outcome |-> "returned", error |-> "",
          results |-> [j \in 1..Len(ts) |-> cs[j].result]]

(* Mutant of estimate_cost: a step of an unknown provider is charged like  *)
(* the step before it.                                                     *)
RECURSIVE estimate_cost_charge_unknown(_)
estimate_cost_charge_unknown(wf) ==
    IF wf = << >> THEN 0
    ELSE LET step == wf[Len(wf)]
             rest == SubSeq(wf, 1, Len(wf) - 1)
             before == estimate_cost_charge_unknown(rest)
         IN  IF step.provider \in Configured
             THEN before + cost_per_request(step.provider) * step.count
             ELSE IF rest # << >> /\ rest[Len(rest)].provider \in Configured
             THEN before + cost_per_request(rest[Len(rest)].provider) * step.count
             ELSE before

(* estimate_cost: the loop over the workflow's steps, first to last. *)
RECURSIVE estimate_cost(_)
estimate_cost(wf) ==
    IF wf = << >> THEN 0
    ELSE LET step == wf[Len(wf)]
             before == estimate_cost(SubSeq(wf, 1, Len(wf) - 1))
         IN  IF step.provider \in Configured
             THEN before + cost_per_request(step.provider) * step.count
             ELSE before

(***************************************************************************)
(* Inputs.                                                                 *)
(***************************************************************************)
SeqsUpTo(S, n) == UNION {[1..k -> S] : k \in 0..n}

(* The caller left the provider argument out. *)
Omitted == "omitted"

(* The durations a caller asks for. *)
Durations == {3, 5, 10, 60, 99, 300}

DurationsOf(cap) == IF DefaultDuration(cap) = 0 THEN {0} ELSE Durations

Task(type, provider, duration) ==
    [type |-> type, provider |-> provider, duration |-> duration]

(* The tasks of a batch: two one-request tasks with different results, a   *)
(* task whose dict has no "provider" key (task.get gives None), a task of  *)
(* a type _process_task does not know.                                     *)
BatchTasks ==
    {Task("music", "SUNO_AI", 300), Task("voice", "ELEVENLABS", 0),
     Task("video", None, 5), Task("render", "RUNWAY_GEN3", 5)}

(* The steps of a workflow: registry keys, an enum member with no entry,   *)
(* a step with no "provider" key, with counts.                             *)
StepProviders == {"RUNWAY_GEN3", "KLING", "MOONVALLEY", None}
StepCounts == {1, 2, 3, 100}
Steps == [provider : StepProviders, count : StepCounts]

(* The capabilities behind /api/generate/video, /image and /audio. *)
EndpointCaps == {"video", "image", "music"}

(* data.get('provider', default): the endpoint's default. *)
EndpointDefault(cap) ==
    CASE cap = "video" -> "runway_gen3"
      [] cap = "image" -> "midjourney"
      [] cap = "music" -> "suno"

(* The "provider" strings of a request's JSON: identifiers of members with *)
(* an adapter, and a string that is no member's value.                     *)
Identifiers == {"runway_gen3", "pika_labs", "midjourney", "suno", "sora"}

(* The "prompt" of a request's JSON, missing or empty and not. *)
Prompts == {"", "a prompt"}

(* jsonify({'error': 'Prompt is required'}), 400 *)
PromptRequired == "Prompt is required"

(* A keyword argument beyond the named ones that an adapter of the         *)
(* capability reads from kwargs.                                           *)
Keyword(cap) ==
    CASE cap = "video" -> "motion"
      [] cap = "image" -> "aspect_ratio"
      [] cap = "music" -> "instrumental"
      [] cap = "voice" -> "stability"
      [] cap = "script" -> "temperature"

(* The values a caller gives an argument: two, to tell a value handed on   *)
(* from another.                                                           *)
ArgValues == {"x", "y"}

(* The optional arguments of a call: any of the named ones and the keyword. *)
ArgsOf(cap) == UNION {[D -> ArgValues] : D \in SUBSET (Named(cap) \cup {Keyword(cap)})}

(* The providers of such a call: those the entry point has an adapter for, *)
(* and a missing one.                                                      *)
EntryProviders(cap) == {p \in Configured : Generate(cap, p).kind = "adapter"} \cup {None}

NoEntry == [cap |-> "", provider |-> None, args |-> NoArgs]

Entries ==
    UNION {{[cap |-> c, provider |-> p, args |-> a] : p \in EntryProviders(c), a \in ArgsOf(c)} :
           c \in Capabilities}

(***************************************************************************)
(* Initial state: the manager as __init__ leaves it.                       *)
(***************************************************************************)
Init ==
    /\ session = "absent"
    /\ created = 0
    /\ mode = "idle"
    /\ tasks = << >>
    /\ calls = [i \in Slots |-> NoCall]
    /\ outcome = "none"
    /\ error = ""
    /\ results = << >>
    /\ doneOrder = << >>
    /\ workflow = << >>
    /\ total = << >>
    /\ entry = NoEntry
    /\ received = NotInvoked

opVars == <<mode, tasks, calls, outcome, error, results, doneOrder>>
costVars == <<workflow, total>>
argVars == <<entry, received>>

(* Mutant of Initialize: a closed session is replaced by a new one. *)
Initialize_replace_closed ==
    /\ session' = IF session \in {"absent", "closed"} THEN "open" ELSE session
    /\ created' = IF session \in {"absent", "closed"} THEN created + 1 ELSE created
    /\ UNCHANGED <<opVars, costVars, argVars>>

(* initialize(): if not self.session: self.session = ClientSession() *)
Initialize ==
    /\ session' = IF session = "absent" THEN "open" ELSE session
    /\ created' = IF session = "absent" THEN created + 1 ELSE created
    /\ UNCHANGED <<opVars, costVars, argVars>>

(* close(): if self.session: await self.session.close() *)
Close ==
    /\ session' = IF session = "absent" THEN "absent" ELSE "closed"
    /\ UNCHANGED <<created, opVars, costVars, argVars>>

(* Task i's coroutine has run up to c: what its caller does with it. *)
Advance(i, c) ==
    IF mode = "par"
    THEN /\ calls' = [calls EXCEPT ![i] = c]
         /\ doneOrder' = IF Finished(c) THEN Append(doneOrder, i) ELSE doneOrder
         /\ UNCHANGED <<outcome, error, results>>
    ELSE LET r == run_sequential(calls, tasks, i, c, session)
         IN  /\ calls' = r.calls
             /\ outcome' = r.outcome
             /\ error' = r.error
             /\ results' = r.results
             /\ UNCHANGED doneOrder

(* A direct call of an entry point: generate_video(prompt, provider, ...). *)
Call(cap, p, d) ==
    /\ mode = "idle"
    /\ mode' = "single"
    /\ tasks' = <<Task(cap, IF p = Omitted THEN DefaultProvider(cap) ELSE p, d)>>
    /\ LET r == run_sequential([i \in Slots |-> NoCall], tasks', 1,
                               begin(tasks'[1], session), session)
       IN  /\ calls' = r.calls
           /\ outcome' = r.outcome
           /\ error' = r.error
           /\ results' = r.results
    /\ UNCHANGED <<session, created, doneOrder, costVars, argVars>>

(* A POST to /api/generate/video, /image or /audio with JSON {prompt,      *)
(* provider, duration}: without a prompt it is answered 400; otherwise the *)
(* entry point is awaited with the provider string as it came, and an      *)
(* exception is answered 500.                                              *)
Endpoint(cap, prompt, p, d) ==
    /\ mode = "idle"
    /\ mode' = "endpoint"
    /\ IF prompt = ""
       THEN /\ tasks' = << >>
            /\ calls' = calls
            /\ outcome' = "rejected"
            /\ error' = PromptRequired
            /\ results' = << >>
       ELSE /\ tasks' = <<Task(cap, IF p = Omitted THEN EndpointDefault(cap) ELSE p, d)>>
            /\ LET r == run_sequential([i \in Slots |-> NoCall], tasks', 1,
                                       begin(tasks'[1], session), session)
               IN  /\ calls' = r.calls
                   /\ outcome' = r.outcome
                   /\ error' = r.error
                   /\ results' = r.results
    /\ UNCHANGED <<session, created, doneOrder, costVars, argVars>>

(* batch_process(tasks, parallel=False) *)
BatchSequential(ts) ==
    /\ mode = "idle"
    /\ mode' = "seq"
    /\ tasks' = ts
    /\ LET r == IF ts = << >>
                THEN [calls |-> calls, outcome |-> "returned", error |-> "",
                      results |-> << >>]
                ELSE run_sequential([i \in Slots |-> NoCall], ts, 1,
                                    begin(ts[1], session), session)
       IN  /\ calls' = r.calls
           /\ outcome' = r.outcome
           /\ error' = r.error
           /\ results' = r.results
    /\ UNCHANGED <<session, created, doneOrder, costVars, argVars>>

(* batch_process(tasks, parallel=True) up to `await asyncio.gather(...)`:  *)
(* gather makes one asyncio task per coroutine; none has run yet.          *)
BatchParallel(ts) ==
    /\ mode = "idle"
    /\ mode' = "par"
    /\ tasks' = ts
    /\ calls' = [i \in Slots |-> IF i <= Len(ts) THEN Pending ELSE NoCall]
    /\ outcome' = IF ts = << >> THEN "returned" ELSE "running"
    /\ UNCHANGED <<session, created, error, results, doneOrder, costVars, argVars>>

(* The event loop runs a gathered task's first step; the tasks start in    *)
(* the order gather created them.                                          *)
TaskStart(i) ==
    /\ mode = "par"
    /\ calls[i].pc = "pending"
    /\ \A j \in 1..(i - 1) : calls[j].pc # "pending"
    /\ Advance(i, begin(tasks[i], session))
    /\ UNCHANGED <<session, created, mode, tasks, costVars, argVars>>

(* The vendor answers task i's submission. The first steps of gathered     *)
(* tasks are queued on the event loop together, ahead of any answer: no    *)
(* answer is handled while a task of the batch has yet to start.           *)
PostReply(i, r) ==
    /\ calls[i].pc = "awaitPost"
    /\ \A j \in Slots : calls[j].pc # "pending"
    /\ Advance(i, on_post_reply(calls[i], AdapterOf(tasks[i]), tasks[i], r, session))
    /\ UNCHANGED <<session, created, mode, tasks, costVars, argVars>>

(* The vendor answers task i's status check with status s. *)
StatusReply(i, s) ==
    /\ calls[i].pc = "awaitStatus"
    /\ Advance(i, on_status_reply(calls[i], AdapterOf(tasks[i]), tasks[i], "ok", s))
    /\ UNCHANGED <<session, created, mode, tasks, costVars, argVars>>

(* Task i's status check ends without a success answer. *)
StatusError(i, r) ==
    /\ calls[i].pc = "awaitStatus"
    /\ r # "ok"
    /\ Advance(i, on_status_reply(calls[i], AdapterOf(tasks[i]), tasks[i], r, calls[i].last))
    /\ UNCHANGED <<session, created, mode, tasks, costVars, argVars>>

(* asyncio.sleep is over: the loop's next status check. *)
Wake(i) ==
    /\ calls[i].pc = "sleeping"
    /\ Advance(i, status_check(calls[i], session))
    /\ UNCHANGED <<session, created, mode, tasks, costVars, argVars>>

(* batch_process resumes from `await asyncio.gather(...)`. *)
GatherDone ==
    /\ mode = "par"
    /\ outcome = "running"
    /\ \A i \in 1..Len(tasks) : calls[i].pc # "pending"
    /\ \/ FirstFailure(calls, doneOrder) # 0
       \/ \A i \in 1..Len(tasks) : calls[i].pc = "returned"
    /\ LET g == gather(calls, tasks, doneOrder)
       IN  /\ outcome' = g.outcome
           /\ error' = g.error
           /\ results' = g.results
    /\ UNCHANGED <<session, created, mode, tasks, calls, doneOrder, costVars, argVars>>

(* The caller has the operation's outcome; the manager takes the next one. *)
Reset ==
    /\ outcome \in {"returned", "raised", "rejected"}
    /\ \A i \in Slots : ~InFlight(calls[i])
    /\ mode' = "idle"
    /\ tasks' = << >>
    /\ calls' = [i \in Slots |-> NoCall]
    /\ outcome' = "none"
    /\ error' = ""
    /\ results' = << >>
    /\ doneOrder' = << >>
    /\ UNCHANGED <<session, created, costVars, argVars>>

(* estimate_cost(workflow) *)
EstimateCost ==
    /\ total = << >>
    /\ total' = <<estimate_cost(workflow)>>
    /\ UNCHANGED <<session, created, opVars, workflow, argVars>>

Next ==
    \/ Initialize
    \/ Close
    \/ \E cap \in Capabilities, p \in Providers \cup {Omitted} :
          \E d \in DurationsOf(cap) : Call(cap, p, d)
    \/ \E cap \in EndpointCaps, prompt \in Prompts, p \in Identifiers \cup {Omitted} :
          \E d \in DurationsOf(cap) : Endpoint(cap, prompt, p, d)
    \/ \E ts \in SeqsUpTo(BatchTasks, MaxTasks) : BatchSequential(ts)
    \/ \E ts \in SeqsUpTo(BatchTasks, MaxTasks) : BatchParallel(ts)
    \/ \E i \in Slots : TaskStart(i)
    \/ \E i \in Slots, r \in Replies : PostReply(i, r)
    \/ \E i \in Slots, s \in Statuses : StatusReply(i, s)
    \/ \E i \in Slots, r \in Replies : StatusError(i, r)
    \/ \E i \in Slots : Wake(i)
    \/ GatherDone
    \/ Reset

Spec == Init /\ [][Next]_vars

(* estimate_cost on its own, applied to each workflow of up to MaxSteps    *)
(* steps, on a manager as __init__ leaves it.                              *)
CostInit ==
    /\ session = "absent"
    /\ created = 0
    /\ mode = "idle"
    /\ tasks = << >>
    /\ calls = [i \in Slots |-> NoCall]
    /\ outcome = "none"
    /\ error = ""
    /\ results = << >>
    /\ doneOrder = << >>
    /\ workflow \in SeqsUpTo(Steps, MaxSteps)
    /\ total = << >>
    /\ entry = NoEntry
    /\ received = NotInvoked

CostNext == EstimateCost

CostSpec == CostInit /\ [][CostNext]_vars

(* An entry point's hand-over to its adapter on its own, applied to each   *)
(* call in Entries, on a manager as __init__ leaves it.                    *)
ForwardInit ==
    /\ session = "absent"
    /\ created = 0
    /\ mode = "idle"
    /\ tasks = << >>
    /\ calls = [i \in Slots |-> NoCall]
    /\ outcome = "none"
    /\ error = ""
    /\ results = << >>
    /\ doneOrder = << >>
    /\ workflow = << >>
    /\ total = << >>
    /\ entry \in Entries
    /\ received = NotInvoked

(* generate_video(prompt, provider, **args) and the like, up to the        *)
(* adapter's first line.                                                   *)
Forward ==
    /\ ~received.done
    /\ received' = call_adapter(entry.cap, entry.provider, entry.args)
    /\ UNCHANGED <<session, created, opVars, costVars, entry>>

ForwardNext == Forward

ForwardSpec == ForwardInit /\ [][ForwardNext]_vars

(***************************************************************************)
(* The same machine under fair scheduling: the event loop resumes a task   *)
(* whose sleep is over, an HTTP exchange that was started ends, and        *)
(* batch_process resumes once asyncio.gather has its outcome.              *)
(***************************************************************************)
Fairness ==
    /\ \A i \in Slots : WF_vars(TaskStart(i))
    /\ \A i \in Slots : WF_vars(Wake(i))
    /\ \A i \in Slots : WF_vars(\E r \in Replies : PostReply(i, r))
    /\ \A i \in Slots :
          WF_vars((\E s \in Statuses : StatusReply(i, s)) \/ (\E r \in Replies : StatusError(i, r)))
    /\ WF_vars(GatherDone)

FairSpec == Spec /\ Fairness

(***************************************************************************)
(* Vocabulary of the properties.                                           *)
(***************************************************************************)
TaskIds == 1..Len(tasks)

(* Task i's coroutine has run: it is past _process_task's first line. *)
Started(i) == calls[i].pc \notin {"unused", "pending"}

(* Task i reached an adapter: the entry point raised nothing. *)
Routed(i) == Started(i) /\ dispatch(tasks[i]).kind = "adapter"

(* The session refused a request of task i (absent or closed). *)
Refused(i) == calls[i].err \in {NoSession, SessionClosed}

(* The (capability, provider) pairs whose adapter method the class defines. *)
Implemented ==
    {<<"video", "RUNWAY_GEN3">>, <<"video", "PIKA_LABS">>, <<"image", "MIDJOURNEY">>,
     <<"music", "SUNO_AI">>, <<"voice", "ELEVENLABS">>, <<"script", "CLAUDE_3_OPUS">>}

(* C1: a call of any of the five entry points with a provider that has no  *)
(* registry entry fails with ValueError "Provider ... not configured", with *)
(* no other error, and sends no HTTP request; a direct call surfaces that   *)
(* error to its caller.                                                     *)
C1_UnknownProviderFails ==
    \A i \in TaskIds :
        (Started(i) /\ tasks[i].type \in Capabilities /\ tasks[i].provider \notin Configured)
        => /\ calls[i].pc = "raised"
           /\ calls[i].err = UnknownProvider
           /\ calls[i].posts = 0
           /\ calls[i].gets = 0
           /\ mode = "single" => (outcome = "raised" /\ error = UnknownProvider)

(* C1 witness: with the session open, generate_voice with PLAY_HT (an enum *)
(* member load_api_configs leaves out) has raised UnknownProvider.         *)
C1_Witness ==
    /\ mode = "single"
    /\ session = "open"
    /\ tasks[1] = Task("voice", "PLAY_HT", 0)
    /\ outcome = "raised"
    /\ error = UnknownProvider
    /\ calls[1].posts = 0

(* C2 as claimed: a call with a provider that has a registry entry but no  *)
(* adapter for the capability fails with NotImplementedError and with no   *)
(* other error.                                                            *)
C2_UnsupportedProviderFails ==
    \A i \in TaskIds :
        (/\ Started(i)
         /\ tasks[i].type \in Capabilities
         /\ tasks[i].provider \in Configured
         /\ <<tasks[i].type, tasks[i].provider>> \notin Implemented)
        => (calls[i].pc = "raised" /\ calls[i].err = UnsupportedProvider)

(* C3 as claimed: in a polling adapter a status check that reported        *)
(* "completed" has ended the call with a result and one that reported      *)
(* "failed" has ended it with the vendor's failure, so no check follows a  *)
(* terminal status.                                                        *)
C3_PollingStopsAtTerminal ==
    \A i \in TaskIds :
        /\ calls[i].last = "completed" => calls[i].pc = "returned"
        /\ calls[i].last = "failed" =>
              (calls[i].pc = "raised" /\ calls[i].err = GenerationFailed)

(* C4: a polling adapter that returned after n statuses other than         *)
(* "completed" and "failed" and then "completed" sent exactly one          *)
(* submission and n+1 status checks, waited n times, and built its result  *)
(* from the answer to check n+1 (for the n+1 < MaxPolls the model counts). *)
C4_PollCounts ==
    \A i \in TaskIds :
        (/\ Routed(i)
         /\ AdapterOf(tasks[i]) \in PollingAdapters
         /\ calls[i].pc = "returned"
         /\ ~calls[i].failed
         /\ calls[i].gets < MaxPolls)
        => /\ calls[i].posts = 1
           /\ calls[i].gets = calls[i].nonterminal + 1
           /\ calls[i].sleeps = calls[i].nonterminal
           /\ calls[i].result.from = calls[i].nonterminal + 1

(* C4 witness: Runway answered two non-terminal statuses, then "completed", *)
(* every answer a success: three status checks, two waits.                  *)
C4_Witness ==
    /\ mode = "single"
    /\ tasks[1].provider = "RUNWAY_GEN3"
    /\ tasks[1].type = "video"
    /\ calls[1].pc = "returned"
    /\ calls[1].ok
    /\ calls[1].nonterminal = 2
    /\ calls[1].gets = 3
    /\ calls[1].sleeps = 2
    /\ calls[1].result.from = 3

(* C5 as claimed, under fair scheduling: once the vendor reported a        *)
(* terminal status to a polling adapter, the call ends.                    *)
C5_TerminalStatusEndsCall ==
    \A i \in Slots :
        (calls[i].last \in Terminal) ~> (calls[i].pc \in {"unused", "returned", "raised"})

(* The duration the claim expects in the request: min(d, max_duration), or *)
(* d when the entry has no max_duration.                                   *)
ExpectedDuration(task) ==
    LET m == max_duration(task.provider)
    IN  IF m = << >> THEN task.duration
        ELSE IF task.duration <= m[1] THEN task.duration ELSE m[1]

(* C6 as claimed: each of the adapters that send a duration (Runway, Pika, *)
(* Suno) places min(d, max_duration) in its request.                       *)
C6_DurationClamped ==
    \A i \in TaskIds :
        (Routed(i) /\ AdapterOf(tasks[i]) \in DurationAdapters)
        => calls[i].sent = <<ExpectedDuration(tasks[i])>>

(* C7 as claimed: a call that reached an adapter, whose requests the       *)
(* session took and the vendor all answered with success (a polling job    *)
(* reaching "completed"), ends with a result that has an output, the       *)
(* adapter's display name and the registry's cost_per_request.             *)
C7_SuccessGivesResult ==
    \A i \in TaskIds :
        (/\ Routed(i)
         /\ Finished(calls[i])
         /\ calls[i].ok
         /\ ~Refused(i)
         /\ AdapterOf(tasks[i]) \in PollingAdapters => calls[i].last = "completed")
        => /\ calls[i].pc = "returned"
           /\ calls[i].result.body = "ok"
           /\ calls[i].result.provider = DisplayName(AdapterOf(tasks[i]))
           /\ calls[i].result.provider # tasks[i].provider
           /\ calls[i].result.cost = cost_per_request(tasks[i].provider)

(* The sum of cost_per_request * count over the steps of wf at the         *)
(* positions S.                                                            *)
RECURSIVE SumAt(_, _)
SumAt(wf, S) ==
    IF S = {} THEN 0
    ELSE LET k == CHOOSE x \in S : TRUE
         IN  cost_per_request(wf[k].provider) * wf[k].count + SumAt(wf, S \ {k})

(* wf without its step k. *)
Without(wf, k) == SubSeq(wf, 1, k - 1) \o SubSeq(wf, k + 1, Len(wf))

(* C8: estimate_cost returns the sum of cost_per_request * count over      *)
(* exactly the steps whose provider has a registry entry; the total is     *)
(* what it is without any one step of an unknown provider; the call        *)
(* leaves the manager as it was.                                           *)
C8_EstimateSumsKnownSteps ==
    total # << >> =>
        /\ total[1] = SumAt(workflow,
                            {k \in 1..Len(workflow) : workflow[k].provider \in Configured})
        /\ \A k \in 1..Len(workflow) :
              workflow[k].provider \notin Configured
              => total[1] = estimate_cost(Without(workflow, k))
        /\ session = "absent" /\ created = 0 /\ mode = "idle" /\ outcome = "none"
        /\ calls = [i \in Slots |-> NoCall]

(* C8 witness: 3 Runway requests (0.05), an unknown provider 100 times and *)
(* 2 Kling requests (0.02) are estimated at 0.19.                          *)
C8_Witness ==
    /\ workflow = <<[provider |-> "RUNWAY_GEN3", count |-> 3],
                    [provider |-> "MOONVALLEY", count |-> 100],
                    [provider |-> "KLING", count |-> 2]>>
    /\ total = <<190>>

(* C9: with parallel=False a task has run only if every task before it     *)
(* returned; once a task raised, batch_process has raised that error, has  *)
(* returned no list, and no later task has run or sent a request.          *)
C9_SequentialFailFast ==
    mode = "seq" =>
        \A i \in TaskIds :
            /\ Started(i) => \A j \in 1..(i - 1) : calls[j].pc = "returned"
            /\ calls[i].pc = "raised" =>
                  /\ outcome = "raised"
                  /\ error = calls[i].err
                  /\ results = << >>
                  /\ \A j \in (i + 1)..Len(tasks) : ~Started(j) /\ calls[j].posts = 0
            /\ outcome = "returned" => calls[i].pc = "returned"

(* C9 witness: [ok, fail, ok] with the session open: the first task         *)
(* returned, the second raised after its request was answered, the third   *)
(* never ran.                                                              *)
C9_Witness ==
    /\ mode = "seq"
    /\ session = "open"
    /\ Len(tasks) = 3
    /\ tasks[3] = Task("voice", "ELEVENLABS", 0)
    /\ calls[1].pc = "returned"
    /\ calls[2].pc = "raised"
    /\ calls[2].posts = 1
    /\ calls[3].pc = "unused"
    /\ outcome = "raised"

(* C10: with parallel=True, when every task returned, batch_process        *)
(* returns a list as long as the input whose position i holds task i's     *)
(* result, whatever the order the tasks ended in.                          *)
C10_ParallelOrder ==
    (mode = "par" /\ outcome = "returned") =>
        /\ Len(results) = Len(tasks)
        /\ \A i \in TaskIds :
              /\ calls[i].pc = "returned"
              /\ results[i] = calls[i].result
              /\ results[i].provider = DisplayName(AdapterOf(tasks[i]))
              /\ results[i].cost = cost_per_request(tasks[i].provider)

(* C10 witness: three tasks, the last one ended first and the first one    *)
(* last, and the returned list is in input order.                          *)
C10_Witness ==
    /\ mode = "par"
    /\ outcome = "returned"
    /\ Len(tasks) = 3
    /\ doneOrder = <<3, 2, 1>>
    /\ tasks[1].provider # tasks[3].provider
    /\ results = <<calls[1].result, calls[2].result, calls[3].result>>

(* C11: with parallel=True, once a task has raised, batch_process returns  *)
(* no list (no partial results, no error markers in the slots); when it    *)
(* raises, its error is that of the task that was first to raise, in the   *)
(* order the tasks ended, whatever that task's position in the input.      *)
C11_ParallelFailsWithFirstFailure ==
    (mode = "par" /\ \E i \in TaskIds : calls[i].pc = "raised") =>
        /\ outcome # "returned"
        /\ results = << >>
        /\ outcome = "raised" =>
              \E k \in 1..Len(doneOrder) :
                  /\ calls[doneOrder[k]].pc = "raised"
                  /\ error = calls[doneOrder[k]].err
                  /\ \A m \in 1..(k - 1) : calls[doneOrder[m]].pc = "returned"

(* C11 witness: the second task raised at once (unknown type), the first   *)
(* raised later with another error (its answer lacked the key), and        *)
(* batch_process raised the second task's error.                           *)
C11_Witness ==
    /\ mode = "par"
    /\ Len(tasks) = 2
    /\ doneOrder = <<2, 1>>
    /\ calls[1].pc = "raised"
    /\ calls[1].err = KeyErrorBody
    /\ calls[2].err = UnknownTaskType
    /\ outcome = "raised"
    /\ error = UnknownTaskType
    /\ results = << >>

(* C12 as claimed: with parallel=True every task of the batch is started   *)
(* without waiting for another, and batch_process neither returns nor      *)
(* raises before every task of the batch has ended.                        *)
C12_ParallelWaitsForAll ==
    (mode = "par" /\ outcome \in {"returned", "raised"}) =>
        \A i \in TaskIds : Started(i) /\ Finished(calls[i])

(* C13 as claimed: a call that reached an adapter and built its request    *)
(* found or created the session: the manager has a session, the one        *)
(* session ever created, the call did not fail for want of one, and        *)
(* unless that session was closed the call sent its request through it.    *)
C13_SessionCreatedOnFirstUse ==
    \A i \in TaskIds :
        (Routed(i) /\ request_body(AdapterOf(tasks[i]), tasks[i]).kind = "body")
        => /\ session # "absent"
           /\ created = 1
           /\ calls[i].err # NoSession
           /\ session # "closed" => calls[i].posts = 1

(* C14 as claimed: when an entry point invokes the adapter, every optional *)
(* argument the caller gave, named or in **kwargs, other than the duration *)
(* is among the adapter's arguments with the caller's value.               *)
C14_ParametersReachAdapter ==
    (received.done /\ received.adapter # "") =>
        \A n \in DOMAIN entry.args \ {"duration"} :
            n \in DOMAIN received.args /\ received.args[n] = entry.args[n]

(* C15 as claimed: a call one of whose requests was answered with a        *)
(* non-success HTTP status (no exchange of it having failed in transport)  *)
(* has failed at that answer with the vendor-failure error: it has not     *)
(* returned a result, has raised no other error, and is not waiting for    *)
(* or about to send another request.                                       *)
C15_HttpErrorFailsCall ==
    \A i \in TaskIds :
        (~calls[i].ok /\ calls[i].err # ConnectionLost)
        => /\ calls[i].pc = "raised"
           /\ calls[i].err = GenerationFailed

(* C16 as claimed: a request with a prompt to one of the three endpoints,  *)
(* its provider left out or the identifier of a member the entry point has *)
(* an adapter for, is not refused as an unknown provider: it is dispatched *)
(* as a call with that member is, to that member's adapter.                *)
C16_EndpointReachesAdapter ==
    (mode = "endpoint" /\ tasks # << >>) =>
        LET member == ByValue(tasks[1].provider)
        IN  Generate(tasks[1].type, member).kind = "adapter"
            => /\ calls[1].err # UnknownProvider
               /\ dispatch(tasks[1]) = Generate(tasks[1].type, member)

(* C17: a batch task of a known type whose dict has no "provider" is given *)
(* to the entry point with provider None, not with the default: it raises   *)
(* the unknown-provider error and sends no request; batch_process then     *)
(* returns no list, and with parallel=False raises that very error.        *)
C17_MissingProviderFailsBatch ==
    mode \in {"seq", "par"} =>
        \A i \in TaskIds :
            (Started(i) /\ tasks[i].type \in Capabilities /\ tasks[i].provider = None)
            => /\ calls[i].pc = "raised"
               /\ calls[i].err = UnknownProvider
               /\ calls[i].posts = 0
               /\ calls[i].gets = 0
               /\ outcome # "returned"
               /\ results = << >>
               /\ mode = "seq" => (outcome = "raised" /\ error = UnknownProvider)

(* C17 witness: with the session open, a parallel batch of a Suno task and *)
(* a video task without a provider: the Suno task returned, the video task *)
(* raised without a request, and batch_process raised its error.           *)
C17_Witness ==
    /\ mode = "par"
    /\ session = "open"
    /\ tasks = <<Task("music", "SUNO_AI", 300), Task("video", None, 5)>>
    /\ calls[1].pc = "returned"
    /\ calls[2].pc = "raised"
    /\ calls[2].err = UnknownProvider
    /\ calls[2].posts = 0
    /\ outcome = "raised"
    /\ error = UnknownProvider

(* C18: whatever initialize() and close() calls are made, at most one      *)
(* session is ever created, and the manager has one exactly when one was   *)
(* created; once it has one, no step creates another or drops it; once     *)
(* that session is closed it stays the manager's session, closed: no call  *)
(* sends a request any more, and a call that then reaches an adapter and   *)
(* builds its request is refused by the closed session.                    *)
C18_OneSessionEver ==
    /\ [](created <= 1 /\ (session = "absent" <=> created = 0))
    /\ [][/\ session # "absent" => (created' = created /\ session' # "absent")
          /\ session = "closed" =>
                /\ session' = "closed"
                /\ \A i \in Slots :
                      /\ calls'[i].posts <= calls[i].posts
                      /\ calls'[i].pc \in {"awaitPost", "awaitStatus"}
                            => calls'[i].pc = calls[i].pc
                      /\ (/\ calls[i].pc \in {"unused", "pending"}
                          /\ calls'[i].pc \notin {"unused", "pending"}
                          /\ dispatch(tasks'[i]).kind = "adapter"
                          /\ request_body(AdapterOf(tasks'[i]), tasks'[i]).kind = "body")
                         => (calls'[i].pc = "raised" /\ calls'[i].err = SessionClosed)
      ]_vars

(* C18 witness: after initialize() and close() (and any further            *)
(* initialize()), one session was created, it is the manager's and is      *)
(* closed, and a Suno call made then was refused by it without a request.  *)
C18_Witness ==
    /\ created = 1
    /\ session = "closed"
    /\ mode = "single"
    /\ tasks[1].provider = "SUNO_AI"
    /\ calls[1].pc = "raised"
    /\ calls[1].err = SessionClosed
    /\ calls[1].posts = 0
    /\ outcome = "raised"

====
